---- MODULE Spec2Model ----
\* A model of frnm (src/frnm.py): the name generator, the single-entry rename
\* and the traversal of rename_file over a small file system.
\*
\* Names are sequences of one-character strings.  A path is the sequence of
\* the names from the top directory (entry 0, which holds every modelled
\* entry and is never an input itself) down to the entry.
\*
\* Scope of the model:
\*  - files holds resolved_paths, the input paths as os.path.realpath returned
\*    them; symbolic links are not modelled;
\*  - entries are regular files and non-empty directories with names drawn
\*    from Names; special files and empty directories are not modelled;
\*  - a directory scan lists entries by ascending id; the ids number each
\*    tree depth first, so every order of the siblings occurs;
\*  - one process renames at a time: nothing else changes the file system
\*    during a run;
\*  - Spec is a run of rename_file; SpecGen applies generate_new_pathname
\*    alone to every basename of up to MaxLen characters.
EXTENDS Integers, Sequences, FiniteSets, TLC

\* ---------------------------------------------------------------- bounds
MaxEntries == 3   \* entries in the file system of a run
MaxInputs == 2    \* input paths handed to rename_file
MaxLen == 4       \* length of a basename given to the name generator

\* ------------------------------------------------------------ characters
\* The slice of -._0-9a-zA-Z the model uses.
AllowedChars == {"-", ".", "_", "a"}

\* Characters outside the allowed set.
OtherChars == {" "}

Alphabet == AllowedChars \cup OtherChars

\* EXCLUDED_CHARS = re.compile(r"[^-._0-9a-zA-Z]")
EXCLUDED_CHARS(c) == c \notin AllowedChars

\* ------------------------------------------------------- string helpers
\* EXCLUDED_CHARS.sub(char, s): every excluded character becomes char.
Sub(s, c) == [i \in 1..Len(s) |-> IF EXCLUDED_CHARS(s[i]) THEN c ELSE s[i]]

\* s.strip(char)
Strip(s, c) ==
    LET keep == {i \in 1..Len(s) : s[i] # c}
    IN  IF keep = {} THEN <<>>
        ELSE LET lo == CHOOSE i \in keep : \A j \in keep : i <= j
                 hi == CHOOSE i \in keep : \A j \in keep : j <= i
             IN  SubSeq(s, lo, hi)

\* s.split(char): the pieces between the occurrences of char, empty ones kept.
RECURSIVE Split(_, _)
Split(s, c) ==
    LET at == {i \in 1..Len(s) : s[i] = c}
    IN  IF at = {} THEN <<s>>
        ELSE LET i == CHOOSE k \in at : \A j \in at : k <= j
             IN  <<SubSeq(s, 1, i - 1)>> \o Split(SubSeq(s, i + 1, Len(s)), c)

\* list(filter(lambda component: component != "", name_components))
NonEmpty(comps) == SelectSeq(comps, LAMBDA x : x # <<>>)

\* char.join(name_components)
RECURSIVE Join(_, _)
Join(comps, c) ==
    IF comps = <<>> THEN <<>>
    ELSE IF Len(comps) = 1 THEN comps[1]
    ELSE comps[1] \o <<c>> \o Join(Tail(comps), c)

\* os.path.splitext on a basename: the extension starts at the last period,
\* unless only periods come before it.
SplitExt(n) ==
    LET dots == {i \in 1..Len(n) : n[i] = "."}
    IN  IF dots = {} THEN [root |-> n, ext |-> <<>>]
        ELSE LET d == CHOOSE i \in dots : \A j \in dots : j <= i
             IN  IF \E k \in 1..(d - 1) : n[k] # "."
                 THEN [root |-> SubSeq(n, 1, d - 1), ext |-> SubSeq(n, d, Len(n))]
                 ELSE [root |-> n, ext |-> <<>>]

\* ------------------------------------------------------- name generator
\* The file branch of generate_new_pathname without the extension put back.
GenFileNoExt(old_name, c) ==
    LET se == SplitExt(old_name)
        comps == NonEmpty(Split(Strip(Sub(se.root, c), c), c))
    IN  IF Len(comps) < 2 THEN old_name ELSE Join(comps, c)

\* The file branch of generate_new_pathname.
GenFile(old_name, c) ==
    LET se == SplitExt(old_name)
        comps == NonEmpty(Split(Strip(Sub(se.root, c), c), c))
    IN  IF Len(comps) < 2 THEN old_name ELSE Join(comps, c) \o se.ext

\* The directory branch of generate_new_pathname.
GenDir(old_name, c) ==
    LET comps == NonEmpty(Split(Strip(Sub(old_name, c), c), c))
    IN  IF Len(comps) < 2 THEN old_name ELSE Join(comps, c)

\* generate_new_pathname(file_path, char); isfile is os.path.isfile(file_path).
generate_new_pathname(old_name, isfile, c) ==
    IF isfile THEN GenFile(old_name, c) ELSE GenDir(old_name, c)

\* ------------------------------------------------------------ file system
\* An entry: [parent: the entry id of its directory (0: the top directory),
\*            name: its basename, kind: "file" | "dir"].
\* A file system maps the ids of the entries that exist to their records.
Kinds == {"file", "dir"}

\* The basenames the entries of a run start with.
Names ==
    { <<"a", " ", "a">>, <<"a", "_", "a">>, <<"a", "_", "_", "a">> }

\* A path no entry has.
MissingPath == << <<"a">> >>

None == 0 - 1

\* The entries directly inside directory d.
Inside(f, d) == {e \in DOMAIN f : f[e].parent = d}

\* os.listdir(d)
ListDir(f, d) == {f[e].name : e \in Inside(f, d)}

\* The entry called nm inside directory d, or None.
Child(f, d, nm) ==
    LET hit == {e \in Inside(f, d) : f[e].name = nm}
    IN  IF hit = {} THEN None ELSE CHOOSE e \in hit : TRUE

\* The entry a path names, or None: each name is looked up in the directory
\* reached so far.
RECURSIVE Resolve(_, _)
Resolve(f, path) ==
    IF path = <<>> THEN 0
    ELSE LET d == Resolve(f, SubSeq(path, 1, Len(path) - 1))
         IN  IF d = None THEN None
             ELSE IF d # 0 /\ f[d].kind # "dir" THEN None
             ELSE Child(f, d, path[Len(path)])

\* os.path.exists, os.path.isfile, os.path.isdir
Exists(f, path) == Resolve(f, path) # None
IsFile(f, path) == Exists(f, path) /\ f[Resolve(f, path)].kind = "file"
IsDir(f, path) == Exists(f, path) /\ f[Resolve(f, path)].kind = "dir"

\* The path of entry e.
RECURSIVE PathOf(_, _)
PathOf(f, e) ==
    IF f[e].parent = 0 THEN <<f[e].name>>
    ELSE Append(PathOf(f, f[e].parent), f[e].name)

\* The proper ancestors of entry e below the top directory.
RECURSIVE Ancestors(_, _)
Ancestors(f, e) ==
    IF f[e].parent = 0 THEN {}
    ELSE {f[e].parent} \cup Ancestors(f, f[e].parent)

\* The entries beneath entry d.
Descendants(f, d) == {e \in DOMAIN f : d \in Ancestors(f, e)}

\* The ids of a set in the order the directory scan lists them.
RECURSIVE ScanOrder(_)
ScanOrder(S) ==
    IF S = {} THEN <<>>
    ELSE LET m == CHOOSE x \in S : \A y \in S : x <= y
         IN  <<m>> \o ScanOrder(S \ {m})

\* os.path.join(dirpath, name) for each listed entry
Joined(f, dpath, ids) == [i \in 1..Len(ids) |-> Append(dpath, f[ids[i]].name)]

RECURSIVE WalkAll(_, _, _)
\* get_children with os.walk top-down: a directory's entries are listed
\* before the entries of its subdirectories.
WalkTopDown(f, d, dpath) ==
    LET subs == ScanOrder({e \in Inside(f, d) : f[e].kind = "dir"})
        files == ScanOrder({e \in Inside(f, d) : f[e].kind # "dir"})
    IN  Joined(f, dpath, files) \o Joined(f, dpath, subs)
          \o WalkAll(f, dpath, subs)

\* get_children without the loop over subFolders.
WalkFilesOnly(f, d, dpath) ==
    LET subs == ScanOrder({e \in Inside(f, d) : f[e].kind = "dir"})
        files == ScanOrder({e \in Inside(f, d) : f[e].kind # "dir"})
    IN  WalkAll(f, dpath, subs) \o Joined(f, dpath, files)

\* get_children(directory): os.walk(directory, topdown=False) yields every
\* subdirectory's triple before the directory's own; each triple adds the
\* directory's file names, then its subdirectory names.
get_children(f, d, dpath) ==
    LET subs == ScanOrder({e \in Inside(f, d) : f[e].kind = "dir"})
        files == ScanOrder({e \in Inside(f, d) : f[e].kind # "dir"})
    IN  WalkAll(f, dpath, subs) \o Joined(f, dpath, files)
          \o Joined(f, dpath, subs)

\* The walks of the listed subdirectories, one after the other.
WalkAll(f, dpath, subs) ==
    IF subs = <<>> THEN <<>>
    ELSE get_children(f, subs[1], Append(dpath, f[subs[1]].name))
           \o WalkAll(f, dpath, Tail(subs))

\* ------------------------------------------------------ single-entry rename
\* os.replace(src, dest) inside directory d: entry e takes the name new_name.
\* An entry already bearing that name is replaced (a file by a non-directory,
\* an empty directory by a directory); otherwise the call fails.
Replace(f, e, new_name) ==
    LET t == Child(f, f[e].parent, new_name)
        moved == [f EXCEPT ![e].name = new_name]
    IN  IF t = None \/ t = e THEN [fs |-> moved, ok |-> TRUE]
        ELSE IF \/ f[e].kind # "dir" /\ f[t].kind # "dir"
                \/ f[e].kind = "dir" /\ f[t].kind = "dir" /\ Inside(f, t) = {}
             THEN [fs |-> [x \in DOMAIN f \ {t} |-> moved[x]], ok |-> TRUE]
             ELSE [fs |-> f, ok |-> FALSE]

\* What one call of sanitize_file_name did: the entry the path named, the
\* names involved, the sibling names it listed, and how the call ended.
Call(f, e, path, old_name, new_name, siblings, result) ==
    [fs |-> f, id |-> e, path |-> path, old |-> old_name, new |-> new_name,
     siblings |-> siblings, result |-> result]

\* sanitize_file_name that renames without looking at the siblings.
SanitizeNoCheck(f, path, c, suppress) ==
    LET old_name == path[Len(path)]
        d == Resolve(f, SubSeq(path, 1, Len(path) - 1))
        e == Resolve(f, path)
        new_name == generate_new_pathname(old_name, IsFile(f, path), c)
        siblings == ListDir(f, d) \ {old_name}
    IN  IF e = None THEN Call(f, e, path, old_name, new_name, {}, "OSError")
        ELSE IF new_name # old_name
        THEN LET r == Replace(f, e, new_name)
             IN  Call(r.fs, e, path, old_name, new_name, siblings,
                      IF r.ok THEN "renamed" ELSE "OSError")
        ELSE Call(f, e, path, old_name, new_name, siblings, "noop")

\* sanitize_file_name that ends the process on a suppressed collision.
SanitizeExit(f, path, c, suppress) ==
    LET old_name == path[Len(path)]
        d == Resolve(f, SubSeq(path, 1, Len(path) - 1))
        e == Resolve(f, path)
        new_name == generate_new_pathname(old_name, IsFile(f, path), c)
        siblings == ListDir(f, d) \ {old_name}
    IN  IF e = None THEN Call(f, e, path, old_name, new_name, {}, "OSError")
        ELSE IF new_name \in siblings
        THEN Call(f, e, path, old_name, new_name, siblings,
                  IF suppress THEN "exit" ELSE "FileRenameError")
        ELSE IF new_name # old_name
        THEN LET r == Replace(f, e, new_name)
             IN  Call(r.fs, e, path, old_name, new_name, siblings,
                      IF r.ok THEN "renamed" ELSE "OSError")
        ELSE Call(f, e, path, old_name, new_name, siblings, "noop")

\* sanitize_file_name that never raises on a collision.
SanitizeNoRaise(f, path, c, suppress) ==
    LET old_name == path[Len(path)]
        d == Resolve(f, SubSeq(path, 1, Len(path) - 1))
        e == Resolve(f, path)
        new_name == generate_new_pathname(old_name, IsFile(f, path), c)
        siblings == ListDir(f, d) \ {old_name}
    IN  IF e = None THEN Call(f, e, path, old_name, new_name, {}, "OSError")
        ELSE IF new_name \in siblings
        THEN Call(f, e, path, old_name, new_name, siblings, "skipped")
        ELSE IF new_name # old_name
        THEN LET r == Replace(f, e, new_name)
             IN  Call(r.fs, e, path, old_name, new_name, siblings,
                      IF r.ok THEN "renamed" ELSE "OSError")
        ELSE Call(f, e, path, old_name, new_name, siblings, "noop")

\* sanitize_file_name(file_path, char, verbose, suppress_errors).
\* A path that names no entry makes os.listdir or siblings.remove raise
\* ("OSError"); a candidate borne by a sibling is a collision, raised
\* ("FileRenameError") or passed over ("skipped"); otherwise the entry is
\* renamed when the candidate differs from its name.
sanitize_file_name(f, path, c, suppress) ==
    LET old_name == path[Len(path)]
        d == Resolve(f, SubSeq(path, 1, Len(path) - 1))
        e == Resolve(f, path)
        new_name == generate_new_pathname(old_name, IsFile(f, path), c)
        siblings == ListDir(f, d) \ {old_name}
    IN  IF e = None THEN Call(f, e, path, old_name, new_name, {}, "OSError")
        ELSE IF new_name \in siblings
        THEN Call(f, e, path, old_name, new_name, siblings,
                  IF suppress THEN "skipped" ELSE "FileRenameError")
        ELSE IF new_name # old_name
        THEN LET r == Replace(f, e, new_name)
             IN  Call(r.fs, e, path, old_name, new_name, siblings,
                      IF r.ok THEN "renamed" ELSE "OSError")
        ELSE Call(f, e, path, old_name, new_name, siblings, "noop")

\* ------------------------------------------------------------- validation
\* len(char) != 1, or EXCLUDED_CHARS.match(char)
BadChar(ch) == Len(ch) # 1 \/ EXCLUDED_CHARS(ch[1])

\* The existence check that looks at the first input path only.
FirstPathExists(f, paths) == paths = <<>> \/ Exists(f, paths[1])

\* The loop over resolved_paths: every input path exists.
AllPathsExist(f, paths) == \A i \in 1..Len(paths) : Exists(f, paths[i])

\* ------------------------------------------------------------------ state
VARIABLES
    fs,               \* the file system
    char,             \* rename_file's char, a sequence of characters
    files,            \* resolved_paths
    recursive,        \* rename_file's recursive
    suppress_errors,  \* rename_file's suppress_errors
    pc,               \* "validate" | "loop" | "children" | "done"
    idx,              \* position of the second loop over resolved_paths
    children,         \* the list get_children returned for files[idx]
    cidx,             \* position of the loop over children
    outcome,          \* "running" | "returned" | the exception raised | "exit"
    fs0,              \* history: the file system the run started with
    log,              \* history: the calls of sanitize_file_name, in order
    enumerated,       \* history: the entries the paths of children named
    gin,              \* name generator alone: basename, kind and character
    gout              \* name generator alone: the names generated so far

vars == <<fs, char, files, recursive, suppress_errors, pc, idx, children,
          cidx, outcome, fs0, log, enumerated, gin, gout>>

run == <<char, files, recursive, suppress_errors, fs0>>
gen == <<gin, gout>>

\* The values of char a run is started with.
Chars == { <<"_">>, <<" ">>, <<"_", "_">> }

\* The file systems a run starts in: MaxEntries entries numbered depth
\* first (an entry lies in the top directory, in the entry numbered before it
\* or in one of that entry's ancestors), sibling names distinct; the entries
\* that hold entries are the directories, the others regular files.
WellFormed(f) ==
    /\ \A e \in DOMAIN f : f[e].parent < e
    /\ \A e \in DOMAIN f :
          e > 1 => f[e].parent \in {0, e - 1} \cup Ancestors(f, e - 1)
    /\ \A e \in DOMAIN f : f[e].kind = "dir" <=> Inside(f, e) # {}
    /\ \A e1, e2 \in DOMAIN f :
          e1 # e2 /\ f[e1].parent = f[e2].parent => f[e1].name # f[e2].name

FileSystems ==
    { f \in [1..MaxEntries -> [parent : 0..(MaxEntries - 1), name : Names,
                                kind : Kinds]] : WellFormed(f) }

\* The lists of input paths: paths of entries and a path of no entry.
InputLists(f) ==
    LET cands == {PathOf(f, e) : e \in DOMAIN f} \cup {MissingPath}
    IN  UNION {[1..n -> cands] : n \in 0..MaxInputs}

NoGen == [name |-> <<>>, isfile |-> FALSE, c |-> "_"]

Init ==
    /\ fs \in FileSystems
    /\ fs0 = fs
    /\ char \in Chars
    /\ files \in InputLists(fs)
    /\ recursive \in BOOLEAN
    /\ suppress_errors \in BOOLEAN
    /\ pc = "validate"
    /\ idx = 1
    /\ children = <<>>
    /\ cidx = 1
    /\ outcome = "running"
    /\ log = <<>>
    /\ enumerated = [dir |-> None, ids |-> <<>>]
    /\ gin = NoGen
    /\ gout = <<>>

\* ---------------------------------------------------------------- actions
\* rename_file, lines 112-135: the checks of char and of the input paths.
Validate ==
    /\ pc = "validate"
    /\ IF BadChar(char)
       THEN /\ pc' = "done"
            /\ outcome' = IF suppress_errors THEN "exit" ELSE "ValueError"
       ELSE IF ~AllPathsExist(fs, files)
       THEN /\ pc' = "done"
            /\ outcome' = IF suppress_errors THEN "exit" ELSE "FileNotFoundError"
       ELSE /\ pc' = "loop"
            /\ outcome' = outcome
    /\ UNCHANGED <<fs, idx, children, cidx, log, enumerated, run, gen>>

\* The calls that end the run: an exception, or a process exit.
Ends(result) == result \in {"FileRenameError", "OSError", "exit"}

\* The log entry of a call made for input number i.
Logged(r, i) ==
    [id |-> r.id, path |-> r.path, old |-> r.old, new |-> r.new,
     siblings |-> r.siblings, result |-> r.result, batch |-> i]

\* rename_file, lines 138-139: the input path is a regular file.
RenameFile ==
    /\ pc = "loop" /\ idx <= Len(files)
    /\ IsFile(fs, files[idx])
    /\ LET r == sanitize_file_name(fs, files[idx], char[1], suppress_errors)
       IN  /\ fs' = r.fs
           /\ log' = Append(log, Logged(r, idx))
           /\ IF Ends(r.result)
              THEN pc' = "done" /\ outcome' = r.result /\ idx' = idx
              ELSE pc' = "loop" /\ outcome' = outcome /\ idx' = idx + 1
    /\ UNCHANGED <<children, cidx, enumerated, run, gen>>

\* rename_file, lines 140 and 145-146: a directory, recursive: list the
\* descendants.
EnterDir ==
    /\ pc = "loop" /\ idx <= Len(files)
    /\ IsDir(fs, files[idx])
    /\ recursive
    /\ LET d == Resolve(fs, files[idx])
           ch == get_children(fs, d, files[idx])
       IN  /\ children' = ch
           /\ enumerated' = [dir |-> d,
                             ids |-> [i \in 1..Len(ch) |-> Resolve(fs, ch[i])]]
    /\ cidx' = 1
    /\ pc' = "children"
    /\ UNCHANGED <<fs, idx, outcome, log, run, gen>>

\* rename_file, lines 147-148: the next descendant.
RenameChild ==
    /\ pc = "children" /\ cidx <= Len(children)
    /\ LET r == sanitize_file_name(fs, children[cidx], char[1], suppress_errors)
       IN  /\ fs' = r.fs
           /\ log' = Append(log, Logged(r, idx))
           /\ IF Ends(r.result)
              THEN pc' = "done" /\ outcome' = r.result /\ cidx' = cidx
              ELSE pc' = "children" /\ outcome' = outcome /\ cidx' = cidx + 1
    /\ UNCHANGED <<idx, children, enumerated, run, gen>>

\* rename_file, line 149: the directory itself, after its descendants when
\* recursive.
RenameDir ==
    /\ \/ pc = "loop" /\ idx <= Len(files) /\ IsDir(fs, files[idx]) /\ ~recursive
       \/ pc = "children" /\ cidx > Len(children)
    /\ LET r == sanitize_file_name(fs, files[idx], char[1], suppress_errors)
       IN  /\ fs' = r.fs
           /\ log' = Append(log, Logged(r, idx))
           /\ IF Ends(r.result)
              THEN pc' = "done" /\ outcome' = r.result /\ idx' = idx
              ELSE pc' = "loop" /\ outcome' = outcome /\ idx' = idx + 1
    /\ UNCHANGED <<children, cidx, enumerated, run, gen>>

\* rename_file, lines 150-152: neither a regular file nor a directory.
SkipOther ==
    /\ pc = "loop" /\ idx <= Len(files)
    /\ ~IsFile(fs, files[idx]) /\ ~IsDir(fs, files[idx])
    /\ idx' = idx + 1
    /\ UNCHANGED <<fs, pc, children, cidx, outcome, log, enumerated, run, gen>>

\* rename_file returns: the loop over resolved_paths is over.
Return ==
    /\ pc = "loop" /\ idx > Len(files)
    /\ pc' = "done"
    /\ outcome' = "returned"
    /\ UNCHANGED <<fs, idx, children, cidx, log, enumerated, run, gen>>

Next ==
    \/ Validate
    \/ RenameFile
    \/ EnterDir
    \/ RenameChild
    \/ RenameDir
    \/ SkipOther
    \/ Return

Spec == Init /\ [][Next]_vars

\* ------------------------------------------------- name generator alone
\* The basenames handed to the name generator: up to MaxLen characters,
\* "." and ".." left out (no entry bears them).
GenNames ==
    UNION {[1..n -> Alphabet] : n \in 1..MaxLen} \ { <<".">>, <<".", ".">> }

InitGen ==
    /\ gin \in [name : GenNames, isfile : BOOLEAN, c : AllowedChars]
    /\ gout = <<>>
    /\ fs = <<>> /\ fs0 = <<>>
    /\ char = <<gin.c>>
    /\ files = <<>>
    /\ recursive = FALSE
    /\ suppress_errors = FALSE
    /\ pc = "done"
    /\ idx = 1
    /\ children = <<>>
    /\ cidx = 1
    /\ outcome = "running"
    /\ log = <<>>
    /\ enumerated = [dir |-> None, ids |-> <<>>]

\* generate_new_pathname on the basename.
Generate ==
    /\ gout = <<>>
    /\ gout' = <<generate_new_pathname(gin.name, gin.isfile, gin.c)>>
    /\ UNCHANGED <<fs, pc, idx, children, cidx, outcome, log, enumerated, run, gin>>

\* generate_new_pathname on the name it returned (the entry keeps its kind).
Regenerate ==
    /\ Len(gout) = 1
    /\ gout' = Append(gout, generate_new_pathname(gout[1], gin.isfile, gin.c))
    /\ UNCHANGED <<fs, pc, idx, children, cidx, outcome, log, enumerated, run, gin>>

NextGen ==
    \/ Generate
    \/ Regenerate

SpecGen == InitGen /\ [][NextGen]_vars

\* ================================================================ claims
\* Positions of the log.
Calls == 1..Len(log)

\* ---------------------------------------------------------------- C1
\* C1: in a recursive run, within the processing of one input directory, a
\* descendant is handed to sanitize_file_name before each of its ancestors:
\* when an entry is handed over, every entry beneath it has already been
\* handed over for the same input, and none of its ancestors has.
DeepestFirst ==
    recursive =>
        \A i \in Calls :
            log[i].id # None =>
                /\ \A e \in Descendants(fs0, log[i].id) :
                      \E j \in 1..(i - 1) :
                          log[j].id = e /\ log[j].batch = log[i].batch
                /\ \A j \in 1..(i - 1) :
                      log[j].batch = log[i].batch =>
                          log[j].id \notin Ancestors(fs0, log[i].id)

\* A recursive run has renamed a file, then the directory holding it, then
\* the input directory holding that one.
DeepestFirstWitness ==
    /\ recursive
    /\ \E i, j, k \in Calls :
          /\ i < j /\ j < k
          /\ log[i].batch = log[k].batch /\ log[j].batch = log[k].batch
          /\ log[i].id # None /\ log[j].id # None /\ log[k].id # None
          /\ fs0[log[i].id].parent = log[j].id
          /\ fs0[log[j].id].parent = log[k].id
          /\ log[i].result = "renamed"
          /\ log[j].result = "renamed"
          /\ log[k].result = "renamed"

\* ---------------------------------------------------------------- C10
\* C10: while the descendants listed by get_children are being processed,
\* every listed path not yet handed over still names the entry it named when
\* it was listed, the input directory's own path still names the directory,
\* and no call of sanitize_file_name was given a path that names no entry.
PathsStayValid ==
    /\ outcome # "OSError"
    /\ \A i \in Calls : log[i].id # None
    /\ pc = "children" =>
          /\ enumerated.dir # None
          /\ Resolve(fs, files[idx]) = enumerated.dir
          /\ \A k \in cidx..Len(children) :
                /\ enumerated.ids[k] # None
                /\ Resolve(fs, children[k]) = enumerated.ids[k]

\* All the listed descendants, two or more, have been processed, one of them
\* was renamed, and the input directory is about to be processed.
PathsStayValidWitness ==
    /\ pc = "children"
    /\ cidx = Len(children) + 1
    /\ Len(children) >= 2
    /\ \E i \in Calls : log[i].batch = idx /\ log[i].result = "renamed"
    /\ Resolve(fs, files[idx]) = enumerated.dir

\* ---------------------------------------------------------------- C2
\* A call found its candidate among the sibling names it listed.
Collided(i) == log[i].new \in log[i].siblings

\* C2: no entry is ever overwritten: every entry the run started with still
\* exists in the directory it was in, no two entries of a directory bear the
\* same name, and a call whose candidate was borne by a sibling in the
\* listing read at that call did not rename.
NoOverwrite ==
    /\ DOMAIN fs = DOMAIN fs0
    /\ \A e \in DOMAIN fs : fs[e].parent = fs0[e].parent
    /\ \A d \in 0..MaxEntries :
          Cardinality(ListDir(fs, d)) = Cardinality(Inside(fs0, d))
    /\ \A i \in Calls : Collided(i) => log[i].result # "renamed"

\* The run is over; a call renamed an entry, and a later call in the same
\* directory was passed over because its candidate is the name the earlier
\* rename produced, a name no entry of that directory bore at the start.
NoOverwriteWitness ==
    /\ pc = "done"
    /\ \E i, j \in Calls :
          /\ i < j
          /\ log[i].result = "renamed"
          /\ log[j].result = "skipped"
          /\ log[j].new = log[i].new
          /\ fs0[log[i].id].parent = fs0[log[j].id].parent
          /\ log[j].new \notin ListDir(fs0, fs0[log[j].id].parent)

\* ---------------------------------------------------------------- C3
\* The run was started with a char or an input path that validation rejects.
Rejected ==
    \/ Len(char) # 1
    \/ char[1] \notin AllowedChars
    \/ \E i \in 1..Len(files) : Resolve(fs0, files[i]) = None

\* C3: when char is not one allowed character or some input path names no
\* entry, the run ends in the error outcome (ValueError or FileNotFoundError,
\* exit when errors are suppressed) with no call of sanitize_file_name made
\* and the file system as it was.
ValidationFirst ==
    (pc # "validate" /\ Rejected) =>
        /\ pc = "done"
        /\ outcome = IF suppress_errors THEN "exit"
                     ELSE IF Len(char) # 1 \/ char[1] \notin AllowedChars
                     THEN "ValueError" ELSE "FileNotFoundError"
        /\ log = <<>>
        /\ fs = fs0

\* Errors suppressed, char valid, the first input path names an entry whose
\* name would change, the second names no entry: the process has exited.
ValidationFirstWitness ==
    /\ outcome = "exit"
    /\ char = <<"_">>
    /\ Len(files) = 2
    /\ Resolve(fs0, files[1]) # None
    /\ fs0[Resolve(fs0, files[1])].name = <<"a", " ", "a">>
    /\ Resolve(fs0, files[2]) = None

\* ---------------------------------------------------------------- C4
\* The step is a call of sanitize_file_name whose candidate was borne by a
\* sibling.
CollisionStep ==
    /\ Len(log') = Len(log) + 1
    /\ log'[Len(log')].new \in log'[Len(log')].siblings

ExitOnAnyError ==
    (suppress_errors /\ pc = "done" /\ (Rejected \/ \E i \in Calls : Collided(i)))
        => outcome = "exit"

\* ---------------------------------------------------------------- C6
\* C6: with errors not suppressed, a call that finds its candidate borne by a
\* sibling raises FileRenameError and is the last call of the run; the run is
\* then over, the entries renamed earlier bear their new names, and no entry
\* has another name than at the start without a call having renamed it.
AbortOnCollision ==
    /\ \A i \in Calls :
          (~suppress_errors /\ Collided(i)) =>
              /\ i = Len(log)
              /\ log[i].result = "FileRenameError"
              /\ outcome = "FileRenameError"
              /\ pc = "done"
    /\ outcome = "FileRenameError" =>
          /\ \A i \in Calls :
                log[i].result = "renamed" => fs[log[i].id].name = log[i].new
          /\ \A e \in DOMAIN fs :
                fs[e].name # fs0[e].name =>
                    \E i \in Calls : log[i].id = e /\ log[i].result = "renamed"

\* FileRenameError was raised on a descendant after an earlier descendant was
\* renamed, with the input directory, whose name would change, and a later
\* input path not yet processed.
AbortOnCollisionWitness ==
    /\ outcome = "FileRenameError"
    /\ ~suppress_errors
    /\ Len(log) >= 2
    /\ log[1].result = "renamed"
    /\ fs[log[1].id].name = log[1].new
    /\ cidx <= Len(children)
    /\ idx < Len(files)
    /\ files[idx][Len(files[idx])] = <<"a", " ", "a">>

\* ---------------------------------------------------------------- C8
\* C8: an entry whose name has allowed characters only is never renamed: the
\* candidate of every call on such a name is the name itself.
CleanNamesKept ==
    \A i \in Calls :
        (\A k \in 1..Len(log[i].old) : log[i].old[k] \in AllowedChars) =>
            /\ log[i].new = log[i].old
            /\ log[i].result # "renamed"

\* ---------------------------------------------------------------- C9
\* The entries a run is to process: the entries the input paths name at the
\* start and, when recursive, every entry beneath them.
Inputs == {Resolve(fs0, files[i]) : i \in 1..Len(files)} \ {None}

Targets ==
    Inputs \cup
    (IF recursive THEN UNION {Descendants(fs0, e) : e \in Inputs} ELSE {})

\* How many calls of sanitize_file_name were given entry e.
Times(e) == Cardinality({i \in Calls : log[i].id = e})

\* C9 as stated: in a run over any list of input paths, once the run has
\* returned every entry to process has been handed to sanitize_file_name
\* exactly once.
EveryEntryOnce ==
    outcome = "returned" => \A e \in Targets : Times(e) = 1

\* The input paths are pairwise different and none lies inside another.
Apart ==
    \A i, j \in 1..Len(files) :
        i # j =>
            ~(/\ Len(files[i]) <= Len(files[j])
              /\ SubSeq(files[j], 1, Len(files[i])) = files[i])

\* C9 amended: when the input paths are pairwise different and none lies
\* inside another, no entry is handed to sanitize_file_name twice, and once
\* the run has returned every entry to process was handed to it exactly once,
\* ending renamed or passed over, and no other entry was.
ApartEntriesOnce ==
    Apart =>
        /\ \A e \in DOMAIN fs0 : Times(e) <= 1
        /\ outcome = "returned" =>
              /\ \A e \in Targets : Times(e) = 1
              /\ \A i \in Calls :
                    /\ log[i].id \in Targets
                    /\ log[i].result \in {"renamed", "noop", "skipped"}

\* A recursive run over two input paths, a directory with an entry inside
\* and an entry outside it, has returned after three calls.
ApartEntriesOnceWitness ==
    /\ outcome = "returned"
    /\ recursive
    /\ Apart
    /\ Len(files) = 2
    /\ Len(log) = 3
    /\ \E i \in Calls : log[i].result = "renamed"

\* ---------------------------------------------------------------- C7
\* The part of the basename the name generator sanitizes.
Sanitized(name, isfile) == IF isfile THEN SplitExt(name).root ELSE name

\* Allowed characters only, and no leading, trailing or repeated substitution
\* character in the sanitized part.
AlreadyClean(name, isfile, c) ==
    LET part == Sanitized(name, isfile)
    IN  /\ \A k \in 1..Len(name) : name[k] \in AllowedChars
        /\ part # <<>>
        /\ part[1] # c
        /\ part[Len(part)] # c
        /\ \A k \in 1..(Len(part) - 1) : ~(part[k] = c /\ part[k + 1] = c)

\* C7: the name generator applied to the name it returned returns that name
\* again, and it returns an already clean name unchanged.
Idempotent ==
    /\ Len(gout) = 2 => gout[2] = gout[1]
    /\ (Len(gout) >= 1 /\ AlreadyClean(gin.name, gin.isfile, gin.c)) =>
          gout[1] = gin.name

\* The generator changed the name of a file with an extension and was
\* applied to the result.
IdempotentWitness ==
    /\ Len(gout) = 2
    /\ gin.isfile
    /\ SplitExt(gin.name).ext # <<>>
    /\ gout[1] # gin.name
    /\ gout[2] = gout[1]

====
